---------------------------- MODULE Spec2Model ----------------------------
(***************************************************************************)
(* A model of nsls2/core.py (image preprocessing, bin-edge generation,     *)
(* one-shot histogram, MD_dict) and of the RadialBinnedStatistic shape     *)
(* check exercised by skbeam/core/accumulators/tests.                      *)
(*                                                                         *)
(* Every function of core.py is pure, so each one is an operator computed  *)
(* the way the code computes it, and each has an action that calls it on   *)
(* inputs drawn from bounded sets and records the call and what it         *)
(* returned (or the exception it raised).  Floating point values are       *)
(* modelled as exact rationals.                                            *)
(***************************************************************************)
EXTENDS Integers, Sequences, FiniteSets, TLC

VARIABLES sub, be, det, b1d, md, mdres, rbs, rbsres

vars == <<sub, be, det, b1d, md, mdres, rbs, rbsres>>

(***************************************************************************)
(* Bounds of the model.                                                    *)
(***************************************************************************)
MaxImgs == 4
MaxPix == 2

(***************************************************************************)
(* Generic helpers.                                                        *)
(***************************************************************************)
Abs(x) == IF x < 0 THEN -x ELSE x

RECURSIVE Gcd(_, _)
Gcd(a, b) == IF b = 0 THEN a ELSE Gcd(b, a % b)

\* An optional argument: None is <<>>, a given value x is <<x>>.
None == <<>>
Some(x) == <<x>>
IsNone(o) == Len(o) = 0
Given(o) == Len(o) = 1
Val(o) == o[1]
Option(S) == {None} \cup {Some(x) : x \in S}

\* A float is the exact rational n/d, kept in lowest terms with d > 0, so that
\* equal numbers are equal records.
Rat(n, d) ==
    LET g == Gcd(Abs(n), Abs(d))
        sg == IF d < 0 THEN -1 ELSE 1
    IN [n |-> (sg * n) \div g, d |-> (sg * d) \div g]
RInt(i) == [n |-> i, d |-> 1]
RAdd(a, b) == Rat(a.n * b.d + b.n * a.d, a.d * b.d)
RSub(a, b) == Rat(a.n * b.d - b.n * a.d, a.d * b.d)
RMul(a, b) == Rat(a.n * b.n, a.d * b.d)
RDiv(a, b) == Rat(a.n * b.d, a.d * b.n)
RLt(a, b) == a.n * b.d < b.n * a.d
RLe(a, b) == a.n * b.d <= b.n * a.d
\* floor(a / b), the float floor division a // b.
RFloorDiv(a, b) == LET q == RDiv(a, b) IN q.n \div q.d

\* A call record holds op = "call" and the arguments before the call, and the
\* function's name, the arguments and what came back (ret) after it.
NoCall == [op |-> "none"]

(***************************************************************************)
(* img_subtraction_pre(img_arr, is_reference), core.py lines 293-350.      *)
(* An image is reduced to one pixel: the subtraction is elementwise.       *)
(***************************************************************************)
PixVals == 0..MaxPix

\* np.sum(is_reference): the number of true flags.
RECURSIVE np_sum_bool(_)
np_sum_bool(flags) ==
    IF flags = <<>> THEN 0
    ELSE (IF Head(flags) THEN 1 ELSE 0) + np_sum_bool(Tail(flags))

\* np.zeros((n,) + shape[1:]).
np_zeros(n) == [k \in 1..n |-> 0]

\* A loop that never replaces the reference image (the `if ref:` branch only
\* skips the frame).
RECURSIVE SubLoopKeepFirstRef(_, _, _, _, _, _)
SubLoopKeepFirstRef(img_arr, is_reference, i, ref_imge, count, corrected) ==
    IF i > Len(img_arr) THEN corrected
    ELSE IF is_reference[i]
         THEN SubLoopKeepFirstRef(img_arr, is_reference, i + 1, ref_imge,
                                  count, corrected)
         ELSE SubLoopKeepFirstRef(img_arr, is_reference, i + 1, ref_imge,
                  count + 1,
                  [corrected EXCEPT ![count + 1] = img_arr[i] - ref_imge])

\* The loop of lines 339-347 over zip(img_arr[1:], is_reference[1:]); i is the
\* (1-based) position in img_arr, count the local loop counter.
RECURSIVE SubLoop(_, _, _, _, _, _)
SubLoop(img_arr, is_reference, i, ref_imge, count, corrected) ==
    IF i > Len(img_arr) THEN corrected
    ELSE IF is_reference[i]
         THEN SubLoop(img_arr, is_reference, i + 1, img_arr[i], count,
                      corrected)
         ELSE SubLoop(img_arr, is_reference, i + 1, ref_imge, count + 1,
                      [corrected EXCEPT ![count + 1] = img_arr[i] - ref_imge])

\* A check of the last flag instead of the first.
FirstIsReferenceLast(is_reference) == is_reference[Len(is_reference)]

\* The guard of line 325: is_reference[0].
FirstIsReference(is_reference) == is_reference[1]

img_subtraction_pre(img_arr, is_reference) ==
    IF Len(is_reference) = 0
    THEN [status |-> "IndexError", corrected_image |-> <<>>]
    ELSE IF ~FirstIsReference(is_reference)
    THEN [status |-> "ValueError", corrected_image |-> <<>>]
    ELSE LET ref_count == np_sum_bool(is_reference)
             zeros == np_zeros(Len(img_arr) - ref_count)
         IN [status |-> "ok",
             corrected_image |->
                 SubLoop(img_arr, is_reference, 2, img_arr[1], 0, zeros)]

\* The variables of the components a specification does not exercise.
Idle(v) == v = NoCall

\* The inputs are drawn in the initial state; the call is the only step.
InitSub ==
    /\ \E n \in 0..MaxImgs :
         \E img_arr \in [1..n -> PixVals], is_reference \in [1..n -> BOOLEAN] :
            sub = [op |-> "call", img_arr |-> img_arr,
                   is_reference |-> is_reference]
    /\ Idle(be) /\ Idle(det) /\ Idle(b1d) /\ Idle(mdres) /\ Idle(rbs)
    /\ Idle(rbsres) /\ md = <<>>

CallSubtract ==
    /\ sub.op = "call"
    /\ sub' = [op |-> "img_subtraction_pre", img_arr |-> sub.img_arr,
               is_reference |-> sub.is_reference,
               ret |-> img_subtraction_pre(sub.img_arr, sub.is_reference)]
    /\ UNCHANGED <<be, det, b1d, md, mdres, rbs, rbsres>>

NextSub == CallSubtract

SpecSub == InitSub /\ [][NextSub]_vars

SubCalled == sub.op = "img_subtraction_pre"

\* The positions of the measured (non-reference) images, and the j-th of them.
Measured(flags) == {i \in 1..Len(flags) : ~flags[i]}
NthMeasured(flags, j) ==
    CHOOSE i \in Measured(flags) :
        Cardinality({k \in Measured(flags) : k < i}) = j - 1
\* The reference with the greatest index smaller than i.
NearestRef(flags, i) ==
    CHOOSE r \in 1..(i - 1) :
        flags[r] /\ \A q \in (r + 1)..(i - 1) : ~flags[q]

\* C1: when the first flag is true, the result has one corrected image per
\* measured image, in input order, and each is the measured image minus the
\* nearest preceding reference image.
C1_SubtractNearestReference ==
    (SubCalled /\ Len(sub.is_reference) > 0 /\ sub.is_reference[1]) =>
        /\ sub.ret.status = "ok"
        /\ Len(sub.ret.corrected_image) =
               Len(sub.img_arr) - Cardinality({i \in 1..Len(sub.is_reference) :
                                                  sub.is_reference[i]})
        /\ \A j \in 1..Len(sub.ret.corrected_image) :
              LET i == NthMeasured(sub.is_reference, j)
              IN sub.ret.corrected_image[j] =
                     sub.img_arr[i] - sub.img_arr[NearestRef(sub.is_reference, i)]

\* Consecutive references followed by a measured image, and a reference last,
\* where the two references differ.
C1_Witness ==
    /\ SubCalled
    /\ sub.is_reference = <<TRUE, TRUE, FALSE, TRUE>>
    /\ sub.img_arr = <<0, 1, 2, 0>>
    /\ sub.ret.status = "ok"
    /\ sub.ret.corrected_image = <<1>>

\* C8: when the first flag is false the call raises ValueError and returns no
\* corrected image.
C8_FirstNotReferenceFails ==
    (SubCalled /\ Len(sub.is_reference) > 0 /\ ~sub.is_reference[1]) =>
        /\ sub.ret.status = "ValueError"
        /\ sub.ret.corrected_image = <<>>

\* The first flag is false while later flags are true.
C8_Witness ==
    /\ SubCalled
    /\ sub.is_reference = <<FALSE, TRUE, FALSE>>
    /\ sub.ret.status = "ValueError"

(***************************************************************************)
(* bin_edges(range_min, range_max, nbins, step), core.py lines 479-577.    *)
(***************************************************************************)
MaxRange == 3
MaxBins == 3
MaxStepHalves == 5

RangeVals == {RInt(i) : i \in (-1)..MaxRange}
NbinsVals == (-1)..MaxBins
StepVals == {Rat(k, 2) : k \in (-2)..MaxStepHalves}

\* np.arange(n): 0, 1, ..., n-1 (empty when n <= 0).
np_arange(n) == [k \in 1..n |-> k - 1]

\* arr[::-1]
Reversed(arr) == [k \in 1..Len(arr) |-> arr[Len(arr) + 1 - k]]

\* np.linspace without the endpoint: the range is divided by num and the last
\* sample is not set to stop.
np_linspace_no_endpoint(start, stop, num) ==
    [k \in 1..num |->
        RAdd(start, RMul(RInt(k - 1), RDiv(RSub(stop, start), RInt(num))))]

\* np.linspace(start, stop, num, endpoint=True) for num >= 1:
\* div = num - 1; y = arange(num) * (delta / div) + start, and the last sample
\* is set to stop when num > 1.
np_linspace(start, stop, num) ==
    LET div == num - 1
        delta == RSub(stop, start)
        y == [k \in 1..num |->
                IF div > 0
                THEN RAdd(RMul(RInt(k - 1), RDiv(delta, RInt(div))), start)
                ELSE RAdd(RMul(RInt(k - 1), delta), start)]
    IN IF num > 1 THEN [y EXCEPT ![num] = stop] ELSE y

\* The count of line 532 compared with 3, but accepting four arguments too.
WrongArgCountAtMostTwo(range_min, range_max, nbins, step) ==
    LET one(o) == IF Given(o) THEN 1 ELSE 0
    IN one(range_min) + one(range_max) + one(step) + one(nbins) < 3

\* Lines 532-534: num_valid_args != 3.
WrongArgCount(range_min, range_max, nbins, step) ==
    LET one(o) == IF Given(o) THEN 1 ELSE 0
        num_valid_args == one(range_min) + one(range_max) + one(step) + one(nbins)
    IN num_valid_args # 3

\* One edge short: np.arange(nbins) instead of np.arange(nbins + 1).
StepEdgesShort(start, nbins, step) ==
    [k \in 1..nbins |-> RAdd(start, RMul(RInt(np_arange(nbins)[k]), step))]

\* range_min + np.arange(nbins + 1) * step (lines 556 and 573).
StepEdges(start, nbins, step) ==
    [k \in 1..(nbins + 1) |->
        RAdd(start, RMul(RInt(np_arange(nbins + 1)[k]), step))]

\* range_max - np.arange(nbins + 1)[::-1] * step (line 577).
StepEdgesDown(stop, nbins, step) ==
    [k \in 1..(nbins + 1) |->
        RSub(stop, RMul(RInt(Reversed(np_arange(nbins + 1))[k]), step))]

Raised(exc) == [status |-> exc, edges |-> <<>>, logged |-> FALSE]
Returned(edges) == [status |-> "ok", edges |-> edges, logged |-> FALSE]

\* Lines 551-569: the user gave min, max and step.  The gaps of the model are
\* multiples of 1/2 of a step of at least 1/2, so `gap > 1e-10 * step` is
\* `gap > 0` here.
MinMaxStepEdges(range_min, range_max, step) ==
    IF RLt(RSub(range_max, range_min), step) THEN Raised("ValueError")
    ELSE IF step.n = 0 THEN Raised("ZeroDivisionError")
    ELSE LET nbins == RFloorDiv(RSub(range_max, range_min), step)
             ret == StepEdges(range_min, nbins, step)
         IN IF Len(ret) = 0 THEN Raised("IndexError")
            ELSE IF RLt(range_max, ret[Len(ret)])
            THEN Returned(SubSeq(ret, 1, Len(ret) - 1))
            ELSE [status |-> "ok", edges |-> ret,
                  logged |-> RLt(RInt(0), RSub(range_max, ret[Len(ret)]))]

bin_edges(range_min, range_max, nbins, step) ==
    IF WrongArgCount(range_min, range_max, nbins, step)
    THEN Raised("ValueError")
    ELSE IF Given(range_min) /\ Given(range_max)
            /\ RLe(Val(range_max), Val(range_min))
    THEN Raised("ValueError")
    ELSE IF Given(nbins) /\ Val(nbins) <= 0
    THEN Raised("ValueError")
    ELSE IF IsNone(step)
    THEN Returned(np_linspace(Val(range_min), Val(range_max), Val(nbins) + 1))
    ELSE IF IsNone(nbins)
    THEN MinMaxStepEdges(Val(range_min), Val(range_max), Val(step))
    ELSE IF IsNone(range_max)
    THEN Returned(StepEdges(Val(range_min), Val(nbins), Val(step)))
    ELSE IF IsNone(range_min)
    THEN Returned(StepEdgesDown(Val(range_max), Val(nbins), Val(step)))
    \* no branch is left with four arguments: the function returns None
    ELSE [status |-> "None", edges |-> <<>>, logged |-> FALSE]

InitBins ==
    /\ \E range_min \in Option(RangeVals), range_max \in Option(RangeVals),
          nbins \in Option(NbinsVals), step \in Option(StepVals) :
            be = [op |-> "call", range_min |-> range_min,
                  range_max |-> range_max, nbins |-> nbins, step |-> step]
    /\ Idle(sub) /\ Idle(det) /\ Idle(b1d) /\ Idle(mdres) /\ Idle(rbs)
    /\ Idle(rbsres) /\ md = <<>>

CallBinEdges ==
    /\ be.op = "call"
    /\ be' = [op |-> "bin_edges", range_min |-> be.range_min,
              range_max |-> be.range_max, nbins |-> be.nbins,
              step |-> be.step,
              ret |-> bin_edges(be.range_min, be.range_max, be.nbins, be.step)]
    /\ UNCHANGED <<sub, det, b1d, md, mdres, rbs, rbsres>>

NextBins == CallBinEdges

SpecBins == InitBins /\ [][NextBins]_vars

BinsCalled == be.op = "bin_edges"
NumGiven(c) ==
    Cardinality({a \in {"range_min", "range_max", "nbins", "step"} :
                    Given(c[a])})

\* C2: with 0, 1, 2 or 4 of the four arguments given, bin_edges raises
\* ValueError and returns no edges.
C2_WrongArgCountFails ==
    (BinsCalled /\ NumGiven(be) # 3) =>
        (be.ret.status = "ValueError" /\ be.ret.edges = <<>>)

\* All four arguments given, each of them valid on its own.
C2_Witness ==
    /\ BinsCalled
    /\ be.range_min = Some(RInt(0)) /\ be.range_max = Some(RInt(2))
    /\ be.nbins = Some(2) /\ be.step = Some(RInt(1))
    /\ be.ret.status = "ValueError"

\* C3: with range_min < range_max, nbins > 0 and no step, bin_edges returns
\* nbins + 1 linearly spaced edges, the first range_min and the last range_max.
C3_LinspaceEdges ==
    (/\ BinsCalled /\ Given(be.range_min) /\ Given(be.range_max)
     /\ Given(be.nbins) /\ IsNone(be.step)
     /\ RLt(Val(be.range_min), Val(be.range_max)) /\ Val(be.nbins) > 0) =>
        LET lo == Val(be.range_min)
            hi == Val(be.range_max)
            n == Val(be.nbins)
            e == be.ret.edges
        IN /\ be.ret.status = "ok"
           /\ Len(e) = n + 1
           /\ e[1] = lo
           /\ e[n + 1] = hi
           /\ \A k \in 1..(n + 1) :
                 RMul(RInt(n), RSub(e[k], lo)) = RMul(RInt(k - 1), RSub(hi, lo))

\* Three bins over [0, 2]: the inner edges are not integers.
C3_Witness ==
    /\ BinsCalled
    /\ be.range_min = Some(RInt(0)) /\ be.range_max = Some(RInt(2))
    /\ be.nbins = Some(3) /\ be.step = None
    /\ be.ret.status = "ok"
    /\ be.ret.edges = <<RInt(0), Rat(2, 3), Rat(4, 3), RInt(2)>>

\* What C4 and its amendment say of a (range_min, range_max, step) call: the
\* edges are range_min + i*step for i = 0..floor((range_max - range_min)/step),
\* none above range_max, the last one less than a step below it.
MinMaxStepContract ==
    LET lo == Val(be.range_min)
        hi == Val(be.range_max)
        st == Val(be.step)
        n == RFloorDiv(RSub(hi, lo), st)
        e == be.ret.edges
    IN /\ be.ret.status = "ok"
       /\ Len(e) = n + 1
       /\ \A k \in 1..Len(e) : e[k] = RAdd(lo, RMul(RInt(k - 1), st))
       /\ e[1] = lo
       /\ \A k \in 1..Len(e) : RLe(e[k], hi)
       /\ RLt(RSub(hi, e[Len(e)]), st)

MinMaxStepCall ==
    /\ BinsCalled /\ Given(be.range_min) /\ Given(be.range_max)
    /\ IsNone(be.nbins) /\ Given(be.step)
    /\ RLt(Val(be.range_min), Val(be.range_max))
    /\ RLt(RInt(0), Val(be.step))

\* C4 as stated: for every range_min < range_max and every step > 0 (nbins
\* null) bin_edges returns the edges range_min + i*step up to range_max.
C4_AnyPositiveStep == MinMaxStepCall => MinMaxStepContract

\* C4 amended: the same for every step with 0 < step <= range_max - range_min;
\* a greater step raises ValueError and returns no edges.
C4_StepWithinRange ==
    MinMaxStepCall =>
        IF RLe(Val(be.step), RSub(Val(be.range_max), Val(be.range_min)))
        THEN MinMaxStepContract
        ELSE be.ret.status = "ValueError" /\ be.ret.edges = <<>>

\* A step of 3/2 over [0, 2] does not divide the range: two edges come back
\* and the truncation is only logged.
C4_Witness ==
    /\ BinsCalled
    /\ be.range_min = Some(RInt(0)) /\ be.range_max = Some(RInt(2))
    /\ be.nbins = None /\ be.step = Some(Rat(3, 2))
    /\ be.ret.status = "ok"
    /\ be.ret.edges = <<RInt(0), Rat(3, 2)>>
    /\ be.ret.logged

\* C5: whenever bin_edges returns edges, none of them is above range_max when
\* range_max was given and none is below range_min when range_min was given.
C5_EdgesWithinRange ==
    (BinsCalled /\ be.ret.status = "ok") =>
        \A k \in 1..Len(be.ret.edges) :
            /\ Given(be.range_max) => RLe(be.ret.edges[k], Val(be.range_max))
            /\ Given(be.range_min) => RLe(Val(be.range_min), be.ret.edges[k])

(***************************************************************************)
(* detector2D_to_1D(img, detector_center), core.py lines 353-386.          *)
(* A 2D array is the sequence of its rows.                                 *)
(***************************************************************************)
MaxDim == 3

DimVals == 1..MaxDim
IntensityVals == {0, 1}
CenterVals == {0, 1}

\* arr.ravel(): the rows one after the other (row-major order).
ravel(arr) ==
    LET cols == IF Len(arr) = 0 THEN 0 ELSE Len(arr[1])
    IN [k \in 1..(Len(arr) * cols) |->
           arr[((k - 1) \div cols) + 1][((k - 1) % cols) + 1]]

\* np.meshgrid(xv, yv) with the default indexing='xy': two arrays of shape
\* (len(yv), len(xv)); X repeats xv along every row, Y repeats yv down every
\* column.
np_meshgrid(xv, yv) ==
    [X |-> [i \in 1..Len(yv) |-> [j \in 1..Len(xv) |-> xv[j]]],
     Y |-> [i \in 1..Len(yv) |-> [j \in 1..Len(xv) |-> yv[i]]]]

\* img.shape
shape(img) == <<Len(img), Len(img[1])>>

detector2D_to_1D(img, detector_center) ==
    LET xv == [k \in 1..shape(img)[1] |->
                  np_arange(shape(img)[1])[k] - detector_center[1]]
        yv == [k \in 1..shape(img)[2] |->
                  np_arange(shape(img)[2])[k] - detector_center[2]]
        grid == np_meshgrid(xv, yv)
    IN [X |-> ravel(grid.X), Y |-> ravel(grid.Y), I |-> ravel(img)]

InitDet ==
    /\ \E rows \in DimVals, cols \in DimVals :
         \E img \in [1..rows -> [1..cols -> IntensityVals]],
            detector_center \in [1..2 -> CenterVals] :
            det = [op |-> "call", img |-> img,
                   detector_center |-> detector_center]
    /\ Idle(sub) /\ Idle(be) /\ Idle(b1d) /\ Idle(mdres) /\ Idle(rbs)
    /\ Idle(rbsres) /\ md = <<>>

CallDetector ==
    /\ det.op = "call"
    /\ det' = [op |-> "detector2D_to_1D", img |-> det.img,
               detector_center |-> det.detector_center,
               ret |-> detector2D_to_1D(det.img, det.detector_center)]
    /\ UNCHANGED <<sub, be, b1d, md, mdres, rbs, rbsres>>

NextDet == CallDetector

SpecDet == InitDet /\ [][NextDet]_vars

DetCalled == det.op = "detector2D_to_1D"

\* The (0-based) indices along axis 0 and axis 1 of the pixel that entry k
\* describes, when x runs along axis `xaxis` and y along the other axis.
PixelOf(k, xaxis) ==
    LET x == det.ret.X[k] + det.detector_center[1]
        y == det.ret.Y[k] + det.detector_center[2]
    IN IF xaxis = 0 THEN <<x, y>> ELSE <<y, x>>

\* C6: X, Y and I have rows*cols entries each and, for one assignment of x and
\* y to the two image axes, entry k of the three arrays describes one pixel of
\* the image (its two indices and its intensity), every pixel exactly once.
C6_EntriesDescribeOnePixel ==
    DetCalled =>
        LET rows == Len(det.img)
            cols == Len(det.img[1])
            N == rows * cols
        IN /\ Len(det.ret.X) = N /\ Len(det.ret.Y) = N /\ Len(det.ret.I) = N
           /\ \E xaxis \in {0, 1} :
                /\ \A k \in 1..N :
                     /\ PixelOf(k, xaxis)[1] \in 0..(rows - 1)
                     /\ PixelOf(k, xaxis)[2] \in 0..(cols - 1)
                     /\ det.ret.I[k] =
                          det.img[PixelOf(k, xaxis)[1] + 1][PixelOf(k, xaxis)[2] + 1]
                /\ \A k1, k2 \in 1..N :
                     PixelOf(k1, xaxis) = PixelOf(k2, xaxis) => k1 = k2

(***************************************************************************)
(* bin_1D(x, y, nx, min_x, max_x), core.py lines 389-432.                  *)
(***************************************************************************)
MaxSamples == 2
MaxNx == 3
\* _defaults["bins"]
DefaultBins == 100

XVals == {RInt(-1), RInt(0), Rat(1, 2), RInt(1), RInt(2), RInt(3)}
YVals == {1, 2}
EdgeVals == {RInt(0), RInt(1), RInt(2)}
NxVals == 0..MaxNx

\* np.min(x) and np.max(x) of a non-empty array.
np_min(x) == CHOOSE v \in {x[k] : k \in 1..Len(x)} :
                 \A k \in 1..Len(x) : RLe(v, x[k])
np_max(x) == CHOOSE v \in {x[k] : k \in 1..Len(x)} :
                 \A k \in 1..Len(x) : RLe(x[k], v)

\* np.argsort(a, kind='mergesort'): the stable permutation that sorts a.
argsort(a) ==
    CHOOSE p \in [1..Len(a) -> 1..Len(a)] :
        /\ \A i, j \in 1..Len(a) : i # j => p[i] # p[j]
        /\ \A i, j \in 1..Len(a) :
              i < j => \/ RLt(a[p[i]], a[p[j]])
                       \/ (a[p[i]] = a[p[j]] /\ p[i] < p[j])

\* sa.searchsorted(v, 'left') and sa.searchsorted(v, 'right') on a sorted sa.
searchsorted_left(sa, v) == Cardinality({k \in 1..Len(sa) : RLt(sa[k], v)})
searchsorted_right(sa, v) == Cardinality({k \in 1..Len(sa) : RLe(sa[k], v)})

\* A histogram whose last bin is half-open like the others.
cum_n_all_left(sa, bins) ==
    [i \in 1..Len(bins) |-> searchsorted_left(sa, bins[i])]

\* np.histogram: the number of sorted samples below each edge; the last edge
\* is searched from the right, so that it belongs to the last bin.
cum_n(sa, bins) ==
    [i \in 1..Len(bins) |->
        IF i < Len(bins) THEN searchsorted_left(sa, bins[i])
        ELSE searchsorted_right(sa, bins[i])]

\* np.concatenate(([0], sw.cumsum())), indexed from 0.
RECURSIVE cumsum0(_, _)
cumsum0(sw, m) == IF m = 0 THEN 0 ELSE cumsum0(sw, m - 1) + sw[m]

\* np.histogram(a, bins, weights) for an array of bin edges: ValueError when
\* the edges decrease, else per bin the difference of the cumulated weights
\* (np.diff of cw[cum_n]).
np_histogram(a, bins, weights) ==
    IF \E i \in 1..(Len(bins) - 1) : RLt(bins[i + 1], bins[i])
    THEN [status |-> "ValueError", hist |-> <<>>]
    ELSE LET sorting_index == argsort(a)
             sa == [k \in 1..Len(a) |-> a[sorting_index[k]]]
             sw == [k \in 1..Len(a) |-> weights[sorting_index[k]]]
             bin_index == cum_n(sa, bins)
         IN [status |-> "ok",
             hist |-> [i \in 1..(Len(bins) - 1) |->
                          cumsum0(sw, bin_index[i + 1])
                              - cumsum0(sw, bin_index[i])]]

ones(n) == [k \in 1..n |-> 1]

bin_1D(x, y, nx, min_x, max_x) ==
    IF Len(x) = 0 /\ (IsNone(min_x) \/ IsNone(max_x))
    \* np.min / np.max of an empty array
    THEN [status |-> "ValueError", bins |-> <<>>, val |-> <<>>, count |-> <<>>]
    ELSE LET lo == IF IsNone(min_x) THEN np_min(x) ELSE Val(min_x)
             hi == IF IsNone(max_x) THEN np_max(x) ELSE Val(max_x)
             n == IF IsNone(nx) THEN DefaultBins ELSE Val(nx)
             bins == np_linspace(lo, hi, n + 1)
             val == np_histogram(x, bins, y)
             count == np_histogram(x, bins, ones(Len(x)))
         IN IF val.status # "ok"
            THEN [status |-> val.status, bins |-> <<>>, val |-> <<>>,
                  count |-> <<>>]
            ELSE [status |-> "ok", bins |-> bins, val |-> val.hist,
                  count |-> count.hist]

InitBin1D ==
    /\ \E n \in 0..MaxSamples :
         \E x \in [1..n -> XVals], y \in [1..n -> YVals],
            nx \in Option(NxVals), min_x \in Option(EdgeVals),
            max_x \in Option(EdgeVals) :
            b1d = [op |-> "call", x |-> x, y |-> y, nx |-> nx,
                   min_x |-> min_x, max_x |-> max_x]
    /\ Idle(sub) /\ Idle(be) /\ Idle(det) /\ Idle(mdres) /\ Idle(rbs)
    /\ Idle(rbsres) /\ md = <<>>

CallBin1D ==
    /\ b1d.op = "call"
    /\ b1d' = [op |-> "bin_1D", x |-> b1d.x, y |-> b1d.y, nx |-> b1d.nx,
               min_x |-> b1d.min_x, max_x |-> b1d.max_x,
               ret |-> bin_1D(b1d.x, b1d.y, b1d.nx, b1d.min_x, b1d.max_x)]
    /\ UNCHANGED <<sub, be, det, md, mdres, rbs, rbsres>>

NextBin1D == CallBin1D

SpecBin1D == InitBin1D /\ [][NextBin1D]_vars

Bin1DCalled == b1d.op = "bin_1D"

\* Whether position v lies in bin i of the edges e: [e_i, e_i+1), and
\* [e_i, e_i+1] for the last bin.
InBin(v, e, i) ==
    /\ RLe(e[i], v)
    /\ IF i = Len(e) - 1 THEN RLe(v, e[i + 1]) ELSE RLt(v, e[i + 1])

RECURSIVE SumOver(_, _)
SumOver(S, y) ==
    IF S = {} THEN 0
    ELSE LET k == CHOOSE k \in S : TRUE IN y[k] + SumOver(S \ {k}, y)

\* The arguments bin_1D works with once the defaults are filled in.
EffMinX == IF Given(b1d.min_x) THEN Val(b1d.min_x) ELSE np_min(b1d.x)
EffMaxX == IF Given(b1d.max_x) THEN Val(b1d.max_x) ELSE np_max(b1d.x)
EffNx == IF Given(b1d.nx) THEN Val(b1d.nx) ELSE DefaultBins
Bin1DValidCall ==
    /\ Bin1DCalled
    /\ Len(b1d.x) > 0 \/ (Given(b1d.min_x) /\ Given(b1d.max_x))
    /\ EffNx >= 1
    /\ RLe(EffMinX, EffMaxX)

\* C7: for nx >= 1 bins over min_x <= max_x (given, or defaulted from the
\* data), bin_1D returns nx + 1 evenly spaced edges from min_x to max_x and,
\* per bin, the sum of y and the number of the samples in the bin; a sample in
\* [min_x, max_x] is counted in exactly one bin, a sample outside it in none.
C7_Bin1DHistogram ==
    Bin1DValidCall =>
        LET lo == EffMinX
            hi == EffMaxX
            n == EffNx
            e == b1d.ret.bins
            S == 1..Len(b1d.x)
            inbin(i) == {k \in S : InBin(b1d.x[k], e, i)}
        IN /\ b1d.ret.status = "ok"
           /\ Len(e) = n + 1 /\ e[1] = lo /\ e[n + 1] = hi
           /\ \A i \in 1..(n + 1) :
                 RMul(RInt(n), RSub(e[i], lo)) = RMul(RInt(i - 1), RSub(hi, lo))
           /\ Len(b1d.ret.val) = n /\ Len(b1d.ret.count) = n
           /\ \A i \in 1..n :
                 /\ b1d.ret.count[i] = Cardinality(inbin(i))
                 /\ b1d.ret.val[i] = SumOver(inbin(i), b1d.y)
           /\ \A k \in S :
                 IF RLe(lo, b1d.x[k]) /\ RLe(b1d.x[k], hi)
                 THEN Cardinality({i \in 1..n : k \in inbin(i)}) = 1
                 ELSE \A i \in 1..n : k \notin inbin(i)
           /\ SumOver(1..n, b1d.ret.count) =
                 Cardinality({k \in S : RLe(lo, b1d.x[k]) /\ RLe(b1d.x[k], hi)})

\* Two bins over [0, 2]: one sample on the inner edge, one on the right edge
\* of the last bin; both fall in the last bin.
C7_Witness ==
    /\ Bin1DCalled
    /\ b1d.x = <<RInt(2), RInt(1)>> /\ b1d.y = <<1, 2>>
    /\ b1d.nx = Some(2) /\ b1d.min_x = Some(RInt(0))
    /\ b1d.max_x = Some(RInt(2))
    /\ b1d.ret.status = "ok"
    /\ b1d.ret.count = <<0, 2>>
    /\ b1d.ret.val = <<0, 3>>

(***************************************************************************)
(* MD_dict, core.py lines 130-243.                                         *)
(*                                                                         *)
(* A Python value is a record [t, i, s, keys, items]: t is its type, i or  *)
(* s the payload of an int or a string, items the elements of a sequence   *)
(* (or the values of a mapping, with their keys in keys, or the two fields *)
(* of an md_value).  A key is modelled as key.split('.'), the sequence of  *)
(* its segments.                                                           *)
(***************************************************************************)
PInt(i) == [t |-> "int", i |-> i, s |-> "", keys |-> <<>>, items |-> <<>>]
PStr(s) == [t |-> "str", i |-> 0, s |-> s, keys |-> <<>>, items |-> <<>>]
PNone == [t |-> "None", i |-> 0, s |-> "", keys |-> <<>>, items |-> <<>>]
PSeq(items) == [t |-> "seq", i |-> 0, s |-> "", keys |-> <<>>, items |-> items]
PMap(keys, items) ==
    [t |-> "map", i |-> 0, s |-> "", keys |-> keys, items |-> items]
\* md_value = namedtuple("md_value", ['value', 'units'])
md_value(value, units) ==
    [t |-> "md_value", i |-> 0, s |-> "", keys |-> <<>>,
     items |-> <<value, units>>]

SetVals ==
    {PInt(5), PStr("test"), PNone, md_value(PInt(5), PStr("m")),
     PSeq(<<>>), PSeq(<<PInt(5)>>),
     PSeq(<<PInt(5), PStr("m")>>), PSeq(<<PInt(5), PNone>>),
     PSeq(<<PInt(5), PInt(6)>>),
     PSeq(<<PInt(5), PStr("m"), PInt(7)>>),
     PSeq(<<PInt(5), PInt(6), PInt(7)>>),
     PMap(<<>>, <<>>), PMap(<<PStr("k")>>, <<PInt(5)>>),
     PMap(<<PInt(1)>>, <<PStr("m")>>)}

KeyVals == {<<"a">>, <<"b">>, <<"a", "b">>}

\* The nodes of the tree: a leaf holds an md_value, a branch a nested MD_dict.
Leaf(value, units) == [kind |-> "leaf", value |-> value, units |-> units]
Branch(dict) == [kind |-> "branch", dict |-> dict]
NoneNode == [kind |-> "None"]
EmptyDict == <<>>

\* tmp[k] = v
Put(dict, k, v) ==
    [x \in (DOMAIN dict) \cup {k} |-> IF x = k THEN v ELSE dict[x]]
\* del tmp[k]
Del(dict, k) == [x \in (DOMAIN dict) \ {k} |-> dict[x]]

IsStringOrNone(v) == v.t = "str" \/ v.t = "None"

\* Lines 177-198 of __setitem__: the node stored for val, or the exception
\* that val[1] raises and `except TypeError` does not catch.
to_md_value(val) ==
    IF val.t = "md_value"
    THEN [status |-> "ok", node |-> Leaf(val.items[1], val.items[2])]
    ELSE IF val.t = "str"
    THEN [status |-> "ok", node |-> Leaf(val, PStr("text"))]
    ELSE IF val.t \in {"int", "None"}
    \* val[1] raises TypeError: not subscriptable
    THEN [status |-> "ok", node |-> Leaf(val, PNone)]
    ELSE IF val.t = "seq" /\ Len(val.items) < 2
    THEN [status |-> "IndexError", node |-> NoneNode]
    ELSE IF val.t = "map" /\ ~\E j \in 1..Len(val.keys) : val.keys[j] = PInt(1)
    THEN [status |-> "KeyError", node |-> NoneNode]
    ELSE LET second ==
                 IF val.t = "seq" THEN val.items[2]
                 ELSE val.items[CHOOSE j \in 1..Len(val.keys) :
                                    val.keys[j] = PInt(1)]
             \* what *val unpacks: the elements of a sequence, the keys of
             \* a mapping
             unpacked == IF val.t = "seq" THEN val.items ELSE val.keys
         IN IF IsStringOrNone(second)
            THEN IF Len(unpacked) = 2
                 THEN [status |-> "ok",
                       node |-> Leaf(unpacked[1], unpacked[2])]
                 \* md_value(*val) raises TypeError: wrong number of fields
                 ELSE [status |-> "ok", node |-> Leaf(val, PNone)]
            ELSE [status |-> "ok", node |-> Leaf(val, PNone)]

\* The loop of lines 167-172 (and 203-208) over key_split[:-1]: a segment that
\* is missing, or that holds a leaf (which has no _dict), is replaced by a new
\* empty MD_dict; then node, unless it is NoneNode, is stored under the last
\* segment in the dict the walk ends in (tmp[key_split[-1]] = ...).
RECURSIVE WalkStore(_, _, _)
WalkStore(dict, key_split, node) ==
    IF Len(key_split) = 1
    THEN IF node.kind = "None" THEN dict ELSE Put(dict, key_split[1], node)
    ELSE LET k == Head(key_split)
             inner == IF k \in DOMAIN dict /\ dict[k].kind = "branch"
                      THEN dict[k].dict ELSE EmptyDict
         IN Put(dict, k, Branch(WalkStore(inner, Tail(key_split), node)))

\* The node a path leads to, NoneNode when there is none.
RECURSIVE NodeAt(_, _)
NodeAt(dict, key_split) ==
    IF Head(key_split) \notin DOMAIN dict THEN NoneNode
    ELSE IF Len(key_split) = 1 THEN dict[Head(key_split)]
    ELSE IF dict[Head(key_split)].kind # "branch" THEN NoneNode
    ELSE NodeAt(dict[Head(key_split)].dict, Tail(key_split))

\* MD_dict.__setitem__(key, val), lines 163-198: the branches are made first,
\* then val is converted and stored.
setitem(dict, key_split, val) ==
    LET conv == to_md_value(val)
    IN [status |-> conv.status,
        dict |-> WalkStore(dict, key_split, conv.node)]

\* MD_dict.__getitem__(key), lines 200-214.
getitem(dict, key_split) ==
    LET walked == WalkStore(dict, key_split, NoneNode)
    IN [status |-> "ok", dict |-> walked, ret |-> NodeAt(walked, key_split)]

\* MD_dict.__delitem__(key), lines 216-225.
RECURSIVE DelIn(_, _)
DelIn(dict, key_split) ==
    IF Len(key_split) = 1 THEN Del(dict, key_split[1])
    ELSE Put(dict, Head(key_split),
             Branch(DelIn(dict[Head(key_split)].dict, Tail(key_split))))

RECURSIVE DelStatus(_, _)
DelStatus(dict, key_split) ==
    IF Head(key_split) \notin DOMAIN dict THEN "KeyError"
    ELSE IF Len(key_split) = 1 THEN "ok"
    ELSE IF dict[Head(key_split)].kind # "branch" THEN "AttributeError"
    ELSE DelStatus(dict[Head(key_split)].dict, Tail(key_split))

delitem(dict, key_split) ==
    LET status == DelStatus(dict, key_split)
    IN [status |-> status,
        dict |-> IF status = "ok" THEN DelIn(dict, key_split) ELSE dict]

\* _iter_helper, lines 234-243: the paths of the leaves.
RECURSIVE iter_helper(_, _)
iter_helper(path_list, md_dict) ==
    UNION {IF md_dict[k].kind = "leaf" THEN {Append(path_list, k)}
           ELSE iter_helper(Append(path_list, k), md_dict[k].dict) :
           k \in DOMAIN md_dict}

\* MD_dict.__iter__ and __len__, lines 227-231.
md_iter(dict) == iter_helper(<<>>, dict)
md_len(dict) == Cardinality(md_iter(dict))

\* MD_dict(): an empty tree.
InitMD ==
    /\ md = EmptyDict
    /\ Idle(mdres)
    /\ Idle(sub) /\ Idle(be) /\ Idle(det) /\ Idle(b1d) /\ Idle(rbs)
    /\ Idle(rbsres)

SetItem ==
    /\ \E key \in KeyVals, val \in SetVals :
         LET r == setitem(md, key, val)
         IN /\ md' = r.dict
            /\ mdres' = [op |-> "setitem", key |-> key, val |-> val,
                         status |-> r.status]
    /\ UNCHANGED <<sub, be, det, b1d, rbs, rbsres>>

GetItem ==
    /\ \E key \in KeyVals :
         LET r == getitem(md, key)
         IN /\ md' = r.dict
            /\ mdres' = [op |-> "getitem", key |-> key, status |-> r.status,
                         ret |-> r.ret]
    /\ UNCHANGED <<sub, be, det, b1d, rbs, rbsres>>

DelItem ==
    /\ \E key \in KeyVals :
         LET r == delitem(md, key)
         IN /\ md' = r.dict
            /\ mdres' = [op |-> "delitem", key |-> key, status |-> r.status]
    /\ UNCHANGED <<sub, be, det, b1d, rbs, rbsres>>

NextMD == SetItem \/ GetItem \/ DelItem

SpecMD == InitMD /\ [][NextMD]_vars

\* The (value, units) pair the metadata interface promises for a value set.
ExpectedLeaf(v) ==
    IF v.t = "str" THEN Leaf(v, PStr("text"))
    ELSE IF v.t = "md_value" THEN Leaf(v.items[1], v.items[2])
    ELSE IF v.t = "seq" /\ Len(v.items) = 2 /\ IsStringOrNone(v.items[2])
    THEN Leaf(v.items[1], v.items[2])
    ELSE Leaf(v, PNone)

\* C9: md[key] = v succeeds for a value of any type, and md[key] then returns
\* (v, 'text') for a string, (v[0], v[1]) for a 2-element value whose second
\* element is a string or None, v for an md_value and (v, None) otherwise.
C9_SetThenGet ==
    mdres.op = "setitem" =>
        /\ mdres.status = "ok"
        /\ getitem(md, mdres.key).ret = ExpectedLeaf(mdres.val)

\* The proper prefixes of a key that hold a leaf in dict: the segments at
\* which the key uses a leaf as a branch.
LeafPrefixes(dict, key_split) ==
    {p \in {SubSeq(key_split, 1, i) : i \in 1..(Len(key_split) - 1)} :
        NodeAt(dict, p).kind = "leaf"}

\* C11: when a key passes through a segment that holds a leaf, md[key] = v
\* and md[key] both raise KeyError and the leaf keeps its value and units.
C11_LeafAsBranchRaises ==
    [][(/\ mdres'.op \in {"setitem", "getitem"}
        /\ LeafPrefixes(md, mdres'.key) # {}) =>
           /\ mdres'.status = "KeyError"
           /\ \A p \in LeafPrefixes(md, mdres'.key) :
                 NodeAt(md', p) = NodeAt(md, p)]_vars

\* C12: a read md[key] leaves the tree as it was, branches and leaves alike
\* (and with it len(md) and the iterated keys).
C12_ReadKeepsTree ==
    [][mdres'.op = "getitem" =>
          /\ md' = md
          /\ md_len(md') = md_len(md)
          /\ md_iter(md') = md_iter(md)]_vars

(***************************************************************************)
(* RadialBinnedStatistic (skbeam.core.accumulators.binned_statistic), as   *)
(* its test and the design describe it: the object is built for one image  *)
(* shape and is then called with images.  An image is given by its shape,  *)
(* a per-bin result by its length.                                         *)
(***************************************************************************)
MaxSide == 2
MaxRadialBins == 2

Shape2D == {<<r, c>> : r \in 1..MaxSide, c \in 1..MaxSide}
Shape1D == {<<n>> : n \in 1..MaxSide}
ShapeVals == Shape2D \cup Shape1D
StatVals == {"mean", "median", "count", "sum", "std", "callable", "unknown"}
KnownStats == {"mean", "median", "count", "sum", "std", "callable"}
OriginVals == {<<0, 0>>, <<1, 1>>}
RadialRangeVals == {None, Some(<<0, 1>>)}

\* A call that accepts an image of any 2D shape.
ShapeMismatchOnly1D(image_shape, constructed_shape) == Len(image_shape) # 2

\* compute(image): the image shape must equal the constructed shape.
ShapeMismatch(image_shape, constructed_shape) ==
    image_shape # constructed_shape

\* RadialBinnedStatistic(shape, bins, statistic, origin, range, mask): a
\* 1D shape or a mask of another shape is a shape error, an unknown statistic
\* name a configuration error.
rbs_construct(shp, bins, statistic, origin, range, mask) ==
    IF Len(shp) # 2 THEN [status |-> "ValueError"]
    ELSE IF Given(mask) /\ Val(mask) # shp THEN [status |-> "ValueError"]
    ELSE IF statistic \notin KnownStats THEN [status |-> "ValueError"]
    ELSE [status |-> "ok", shape |-> shp, bins |-> bins,
          statistic |-> statistic, origin |-> origin, range |-> range,
          mask |-> mask]

\* radbinstat(image): ValueError on a shape mismatch, else one value per bin.
rbs_call(self, image_shape) ==
    IF ShapeMismatch(image_shape, self.shape)
    THEN [status |-> "ValueError", result_len |-> 0]
    ELSE [status |-> "ok", result_len |-> self.bins]

InitRBS ==
    /\ Idle(rbs) /\ Idle(rbsres)
    /\ Idle(sub) /\ Idle(be) /\ Idle(det) /\ Idle(b1d) /\ Idle(mdres)
    /\ md = <<>>

\* One object is built per run; a failed construction leaves none.
Construct ==
    /\ rbs = NoCall
    /\ rbsres = NoCall
    /\ \E shp \in ShapeVals, bins \in 1..MaxRadialBins, statistic \in StatVals,
          origin \in OriginVals, range \in RadialRangeVals,
          mask \in Option(ShapeVals) :
         LET r == rbs_construct(shp, bins, statistic, origin, range, mask)
         IN /\ rbs' = IF r.status = "ok"
                      THEN [op |-> "constructed", self |-> r]
                      ELSE NoCall
            /\ rbsres' = [op |-> "construct", shape |-> shp,
                          statistic |-> statistic, mask |-> mask,
                          status |-> r.status]
    /\ UNCHANGED <<sub, be, det, b1d, md, mdres>>

CallRBS ==
    /\ rbs.op = "constructed"
    /\ \E image_shape \in ShapeVals :
         rbsres' = [op |-> "call", image_shape |-> image_shape,
                    ret |-> rbs_call(rbs.self, image_shape)]
    /\ UNCHANGED <<sub, be, det, b1d, md, mdres, rbs>>

NextRBS == Construct \/ CallRBS

SpecRBS == InitRBS /\ [][NextRBS]_vars

\* C10: a constructed RadialBinnedStatistic called with an image of another
\* shape than the one it was built for raises ValueError and returns no
\* per-bin result, whatever it was built with.
C10_WrongImageShapeFails ==
    (rbsres.op = "call" /\ rbsres.image_shape # rbs.self.shape) =>
        (rbsres.ret.status = "ValueError" /\ rbsres.ret.result_len = 0)

\* A masked object with a range, called with a 2D image that is too small.
C10_Witness ==
    /\ rbsres.op = "call"
    /\ rbs.self.shape = <<2, 2>>
    /\ rbs.self.mask = Some(<<2, 2>>)
    /\ Given(rbs.self.range)
    /\ rbsres.image_shape = <<1, 1>>
    /\ rbsres.ret.status = "ValueError"

=============================================================================
